---- MODULE Spec2Model ----
(***************************************************************************)
(* acorn-globals (src/index.js): detection of the global (free) references *)
(* of a JavaScript program.                                                *)
(*                                                                         *)
(* An AST is an arena: a sequence of node records in the order in which    *)
(* acorn-walk's base walker reaches them (pre-order), each with the index  *)
(* of its parent (0 for the root), the field of the parent that holds it   *)
(* (role), its type (kind), its name (identifiers) and its declaration     *)
(* kind (variable declarations).  An array pattern's absent element        *)
(* (null) is a node of kind "null", which the walker never enters.         *)
(***************************************************************************)
EXTENDS Integers, Sequences, FiniteSets, TLC

VARIABLES
    pc,          \* position of the call: start, build, classify, done, threw
    source,      \* what the caller passed: [isString, strictErr, fallback]
    tree,        \* the AST (arena of nodes) the call works on
    hasLocals,   \* nodes that carry a `locals` table
    locals,      \* node -> names in its `locals` table
    ancestors,   \* acorn-walk's working ancestor list (node indices)
    globals,     \* `globals`: recorded reference nodes, in recording order
    parentsOf,   \* node -> the array stored in node.parents (<<>>: unset)
    result,      \* the returned object of the last finished call
    firstResult, \* the returned object of the first call on this AST
    error,       \* the exception that ended the call ("" when none)
    parsingError, \* `parsingError` of the running call ("" for undefined)
    runs         \* calls of parseWithGlobals begun on this AST

vars == <<pc, source, tree, hasLocals, locals, ancestors, globals, parentsOf,
          result, firstResult, error, parsingError, runs>>

(***************************************************************************)
(* Bounds of the checked inputs.                                           *)
(***************************************************************************)
MaxDepth == 2      \* nested scope-introducing statements around a reference
MaxRefs == 3       \* references in a flat program
MaxPatSize == 4    \* nodes of a binding pattern given to declarePattern

(***************************************************************************)
(* AST construction.                                                       *)
(***************************************************************************)
Mk(k, nm, vk) == [kind |-> k, role |-> "", name |-> nm, vkind |-> vk, parent |-> 0]

As(arena, r) == [arena EXCEPT ![1].role = r]

\* a subtree moved behind `offset` nodes, its root made a child of node 1
Shift(kid, offset) ==
    [i \in 1..Len(kid) |->
        [kid[i] EXCEPT !.parent = IF @ = 0 THEN 1 ELSE @ + offset]] \o <<>>

RECURSIVE Glue(_, _)
Glue(arena, kids) ==
    IF kids = <<>> THEN arena
    ELSE CHOOSE r \in {Glue(a, Tail(kids)) :
                          a \in {arena \o Shift(Head(kids), Len(arena))}} : TRUE

\* the node with its children, in walk order
T(node, kids) == CHOOSE r \in {Glue(<<node>>, ks) : ks \in {kids}} : TRUE

Id(nm) == T(Mk("Identifier", nm, ""), <<>>)
ThisExpr == T(Mk("ThisExpression", "", ""), <<>>)
ExprStmt(e) == T(Mk("ExpressionStatement", "", ""), <<As(e, "expression")>>)
Block(stmts) == T(Mk("BlockStatement", "", ""), stmts)
VarDecl(vk, pat) ==
    T(Mk("VariableDeclaration", "", vk),
      <<As(T(Mk("VariableDeclarator", "", ""), <<As(pat, "id")>>), "declarations")>>)
WithId(nm) == IF nm = "" THEN <<>> ELSE <<As(Id(nm), "id")>>
Params(ps) == [i \in 1..Len(ps) |-> As(ps[i], "params")]
FuncDecl(nm, ps, stmts) ==
    T(Mk("FunctionDeclaration", "", ""),
      WithId(nm) \o Params(ps) \o <<As(Block(stmts), "body")>>)
FuncExpr(nm, ps, stmts) ==
    ExprStmt(T(Mk("FunctionExpression", "", ""),
               WithId(nm) \o Params(ps) \o <<As(Block(stmts), "body")>>))
Arrow(ps, stmts) ==
    ExprStmt(T(Mk("ArrowFunctionExpression", "", ""),
               Params(ps) \o <<As(Block(stmts), "body")>>))
TryCatch(param, stmts) ==
    T(Mk("TryStatement", "", ""),
      <<As(Block(<<>>), "block"),
        As(T(Mk("CatchClause", "", ""),
             [i \in 1..Len(param) |-> As(param[i], "param")]
                \o <<As(Block(stmts), "body")>>), "handler")>>)
TryFinally(stmts) ==
    T(Mk("TryStatement", "", ""),
      <<As(Block(<<>>), "block"), As(Block(stmts), "finalizer")>>)
Program(stmts) == T(Mk("Program", "", ""), stmts)

(***************************************************************************)
(* Binding patterns of n nodes.  A property's key is its name (not a node  *)
(* the walk enters); an array pattern's absent element is a "null" node; a *)
(* member expression stands for every node that is no binding pattern.     *)
(***************************************************************************)
Hole == T(Mk("null", "", ""), <<>>)
Member == T(Mk("MemberExpression", "", ""), <<>>)
Rest(p) == T(Mk("RestElement", "", ""), <<As(p, "argument")>>)
Assign(p, e) == T(Mk("AssignmentPattern", "", ""), <<As(p, "left"), As(e, "right")>>)
Prop(key, p) == T(Mk("Property", key, ""), <<As(p, "value")>>)
ArrayPat(elts) ==
    T(Mk("ArrayPattern", "", ""), [i \in 1..Len(elts) |-> As(elts[i], "elements")])
ObjectPat(props) ==
    T(Mk("ObjectPattern", "", ""), [i \in 1..Len(props) |-> As(props[i], "properties")])

RECURSIVE PatsOfSize(_)
RECURSIVE EltSeqs(_, _)
RECURSIVE PropSeqs(_, _)

PatsOfSize(n) ==
    IF n < 1 THEN {}
    ELSE IF n = 1 THEN {Id("a"), Id("b"), Member, ArrayPat(<<>>), ObjectPat(<<>>)}
    ELSE {Rest(p) : p \in PatsOfSize(n - 1)}
         \cup {Assign(p, Id("c")) : p \in PatsOfSize(n - 2)}
         \cup {ArrayPat(es) : es \in EltSeqs(n - 1, n - 1)}
         \cup {ObjectPat(ps) : ps \in PropSeqs(n - 1, n - 1)}

\* lists of array elements (patterns and holes) of m nodes in all, the
\* first element of at most k nodes
EltSeqs(m, k) ==
    IF m = 0 THEN {<<>>}
    ELSE IF k = 0 THEN {}
    ELSE {<<e>> \o es : e \in PatsOfSize(k) \cup (IF k = 1 THEN {Hole} ELSE {}),
                        es \in EltSeqs(m - k, m - k)}
         \cup EltSeqs(m, k - 1)

\* lists of object-pattern properties ({d: p} and {...p}) of m nodes in
\* all, the first property of at most k nodes
PropSeqs(m, k) ==
    IF m = 0 THEN {<<>>}
    ELSE IF k = 0 THEN {}
    ELSE {<<q>> \o ps : q \in {Prop("d", p) : p \in PatsOfSize(k - 1)}
                              \cup {Rest(p) : p \in PatsOfSize(k - 1)},
                        ps \in PropSeqs(m - k, m - k)}
         \cup PropSeqs(m, k - 1)

RECURSIVE PatsUpTo(_)
PatsUpTo(n) == IF n < 1 THEN {} ELSE PatsOfSize(n) \cup PatsUpTo(n - 1)

\* {a, b: [c, ...d]}
ExamplePattern ==
    ObjectPat(<<Prop("a", Id("a")), Prop("b", ArrayPat(<<Id("c"), Rest(Id("d"))>>))>>)

Patterns == PatsUpTo(MaxPatSize) \cup {ExamplePattern}

(***************************************************************************)
(* The checked programs.  A spine program nests up to MaxDepth wrappers    *)
(* and holds at most one declaration of `a` and one reference, each in the *)
(* body of any level; a flat program is a list of up to MaxRefs            *)
(* references after one optional statement.                                *)
(***************************************************************************)
Wrappers == {"block", "fdecl", "fexpr", "arrow", "catch"}

Wrap(w, stmts) ==
    CASE w = "block" -> Block(stmts)
      [] w = "fdecl" -> FuncDecl("f", <<Id("a")>>, stmts)
      [] w = "fexpr" -> FuncExpr("f", <<>>, stmts)
      [] w = "arrow" -> Arrow(<<>>, stmts)
      [] w = "catch" -> TryCatch(<<Id("a")>>, stmts)

DeclKinds == {"var", "let"}
SpineRefs == {"a", "f", "arguments", "this"}
FlatRefs == {"a", "arguments", "this", "undefined"}

RefStmt(nm) == IF nm = "this" THEN ExprStmt(ThisExpr) ELSE ExprStmt(Id(nm))

RECURSIVE SeqsOfLen(_, _)
SeqsOfLen(S, n) ==
    IF n = 0 THEN {<<>>} ELSE {<<x>> \o s : x \in S, s \in SeqsOfLen(S, n - 1)}

RECURSIVE Body(_, _, _, _)
Body(chain, i, decl, ref) ==
    (IF decl.level = i THEN <<VarDecl(decl.kind, Id("a"))>> ELSE <<>>)
    \o (IF i < Len(chain) THEN <<Wrap(chain[i + 1], Body(chain, i + 1, decl, ref))>>
        ELSE <<>>)
    \o (IF ref.level = i THEN <<RefStmt(ref.name)>> ELSE <<>>)

NoDecl == [level |-> -1, kind |-> "var"]

SpineOfDepth(k) ==
    {Program(Body(chain, 0, decl, ref)) :
        chain \in SeqsOfLen(Wrappers, k),
        decl \in {NoDecl} \cup [level : 0..k, kind : DeclKinds],
        ref \in [level : 0..k, name : SpineRefs]}

RECURSIVE SpineUpTo(_)
SpineUpTo(k) == IF k < 0 THEN {} ELSE SpineOfDepth(k) \cup SpineUpTo(k - 1)

SpinePrograms == SpineUpTo(MaxDepth)

\* var a; const a; try {} finally { let a }; try {} catch {}
FlatFirst ==
    {<<>>, <<VarDecl("var", Id("a"))>>, <<VarDecl("const", Id("a"))>>,
     <<TryFinally(<<VarDecl("let", Id("a"))>>)>>, <<TryCatch(<<>>, <<>>)>>}

FlatOfLen(n) ==
    {Program(d \o [i \in 1..Len(rs) |-> RefStmt(rs[i])]) :
        d \in FlatFirst, rs \in SeqsOfLen(FlatRefs, n)}

RECURSIVE FlatUpTo(_)
FlatUpTo(n) == IF n < 0 THEN {} ELSE FlatOfLen(n) \cup FlatUpTo(n - 1)

FlatPrograms == FlatUpTo(MaxRefs)

\* let {a, b: [c, ...d]} = x;  x
ExampleProgram ==
    Program(<<T(Mk("VariableDeclaration", "", "let"),
                <<As(T(Mk("VariableDeclarator", "", ""),
                       <<As(ExamplePattern, "id"), As(Id("x"), "init")>>),
                     "declarations")>>)>>)

Programs == SpinePrograms \cup FlatPrograms \cup {ExampleProgram}

\* the programs analysed twice: the spine programs short of the deepest, and
\* the flat programs of at most one reference
RerunPrograms == SpineUpTo(MaxDepth - 1) \cup FlatUpTo(1) \cup {ExampleProgram}

(***************************************************************************)
(* Node predicates (index.js 7-21) and field access.                       *)
(***************************************************************************)
isScope(t, n) ==
    t[n].kind \in {"FunctionExpression", "FunctionDeclaration",
                   "ArrowFunctionExpression", "Program"}

isBlockScope(t, n) == t[n].kind = "BlockStatement" \/ isScope(t, n)

\* variant: arrow functions would bind `arguments` too
declaresArguments_WithArrows(t, n) ==
    t[n].kind \in {"FunctionExpression", "FunctionDeclaration", "ArrowFunctionExpression"}

declaresArguments(t, n) == t[n].kind \in {"FunctionExpression", "FunctionDeclaration"}

\* variant: arrow functions would bind `this` too
declaresThis_WithArrows(t, n) ==
    t[n].kind \in {"FunctionExpression", "FunctionDeclaration", "ArrowFunctionExpression"}

declaresThis(t, n) == t[n].kind \in {"FunctionExpression", "FunctionDeclaration"}

Min(S) == CHOOSE x \in S : \A y \in S : x <= y
Max(S) == CHOOSE x \in S : \A y \in S : x >= y

RECURSIVE Ascending(_)
Ascending(S) == IF S = {} THEN <<>> ELSE <<Min(S)>> \o Ascending(S \ {Min(S)})

\* node[role] when it is a list: the children in that field, in order
FieldList(t, n, r) == Ascending({c \in 1..Len(t) : t[c].parent = n /\ t[c].role = r})

\* node[role] when it is a single node: the child, or 0 for null / undefined
Field(t, n, r) ==
    LET cs == {c \in 1..Len(t) : t[c].parent = n /\ t[c].role = r}
    IN  IF cs = {} THEN 0 ELSE Min(cs)

(***************************************************************************)
(* The tables attached to nodes, threaded through the declaring functions: *)
(* has = nodes with a `locals` object, tab = its keys, err = the exception *)
(* thrown so far ("" when none).                                           *)
(***************************************************************************)
TypeErr == "TypeError: Cannot read properties of null"
PatternErr == "Error: Unrecognized pattern type"
SourceErr == "TypeError: Source must be either a string of JavaScript or an acorn AST"

\* x.locals = x.locals || Object.create(null)
\* variant: x.locals = Object.create(null), dropping an existing table
EnsureLocals_Fresh(h, n) == [h EXCEPT !.has = @ \cup {n}, !.tab[n] = {}]

EnsureLocals(h, n) == [h EXCEPT !.has = @ \cup {n}]

\* x.locals[name] = true
SetLocal(h, n, nm) ==
    IF n \in h.has THEN [h EXCEPT !.tab[n] = @ \cup {nm}]
    ELSE [h EXCEPT !.err = TypeErr]

RECURSIVE declarePattern(_, _, _, _)
RECURSIVE DeclareEach(_, _, _, _)

\* variant: the default expression of an AssignmentPattern declared as well
declarePattern_WithDefaults(t, h, node, parent) ==
    IF h.err # "" THEN h
    ELSE IF node = 0 THEN [h EXCEPT !.err = TypeErr]
    ELSE CASE t[node].kind = "Identifier" -> SetLocal(h, parent, t[node].name)
           [] t[node].kind = "ObjectPattern" ->
                LET props == FieldList(t, node, "properties")
                    target(p) == IF Field(t, p, "value") # 0 THEN Field(t, p, "value")
                                 ELSE Field(t, p, "argument")
                IN  DeclareEach(t, h, [i \in 1..Len(props) |-> target(props[i])], parent)
           [] t[node].kind = "ArrayPattern" ->
                LET elts == FieldList(t, node, "elements")
                IN  DeclareEach(t, h, SelectSeq(elts, LAMBDA e : t[e].kind # "null"), parent)
           [] t[node].kind = "RestElement" ->
                declarePattern(t, h, Field(t, node, "argument"), parent)
           [] t[node].kind = "AssignmentPattern" ->
                DeclareEach(t, h, <<Field(t, node, "left"), Field(t, node, "right")>>, parent)
           [] OTHER -> [h EXCEPT !.err = PatternErr]

\* index.js 87-112
declarePattern(t, h, node, parent) ==
    IF h.err # "" THEN h
    ELSE IF node = 0 THEN [h EXCEPT !.err = TypeErr]
    ELSE CASE t[node].kind = "Identifier" -> SetLocal(h, parent, t[node].name)
           [] t[node].kind = "ObjectPattern" ->
                LET props == FieldList(t, node, "properties")
                    target(p) == IF Field(t, p, "value") # 0 THEN Field(t, p, "value")
                                 ELSE Field(t, p, "argument")
                IN  DeclareEach(t, h, [i \in 1..Len(props) |-> target(props[i])], parent)
           [] t[node].kind = "ArrayPattern" ->
                LET elts == FieldList(t, node, "elements")
                IN  DeclareEach(t, h, SelectSeq(elts, LAMBDA e : t[e].kind # "null"), parent)
           [] t[node].kind = "RestElement" ->
                declarePattern(t, h, Field(t, node, "argument"), parent)
           [] t[node].kind = "AssignmentPattern" ->
                declarePattern(t, h, Field(t, node, "left"), parent)
           [] OTHER -> [h EXCEPT !.err = PatternErr]

\* forEach(function (node) { declarePattern(node, parent) })
DeclareEach(t, h, nodes, parent) ==
    IF nodes = <<>> THEN h
    ELSE DeclareEach(t, declarePattern(t, h, Head(nodes), parent), Tail(nodes), parent)

\* index.js 66-77
declareFunction(t, h, node) ==
    LET h1 == DeclareEach(t, EnsureLocals(h, node), FieldList(t, node, "params"), node)
        id == Field(t, node, "id")
    IN  IF h1.err # "" \/ id = 0 THEN h1 ELSE SetLocal(h1, node, t[id].name)

\* the innermost of parents[1..from] that satisfies the test, or 0 (null):
\* for (let i = from; i >= 0 && parent === null; i--)
NearestScope(t, parents, from) ==
    LET hits == {i \in 1..from : isScope(t, parents[i])}
    IN  IF hits = {} THEN 0 ELSE parents[Max(hits)]

NearestBlockScope(t, parents, from) ==
    LET hits == {i \in 1..from : isBlockScope(t, parents[i])}
    IN  IF hits = {} THEN 0 ELSE parents[Max(hits)]

\* variant: `var` declared in the nearest block scope, like `let`
VariableDeclarationVisitor_BlockForVar(t, h, node, parents) ==
    LET parent == NearestBlockScope(t, parents, Len(parents))
        decls == FieldList(t, node, "declarations")
    IN  IF parent = 0 THEN [h EXCEPT !.err = TypeErr]
        ELSE DeclareEach(t, EnsureLocals(h, parent),
                         [i \in 1..Len(decls) |-> Field(t, decls[i], "id")], parent)

\* index.js 120-133
VariableDeclarationVisitor(t, h, node, parents) ==
    LET parent == IF t[node].vkind = "var" THEN NearestScope(t, parents, Len(parents))
                  ELSE NearestBlockScope(t, parents, Len(parents))
        decls == FieldList(t, node, "declarations")
    IN  IF parent = 0 THEN [h EXCEPT !.err = TypeErr]
        ELSE DeclareEach(t, EnsureLocals(h, parent),
                         [i \in 1..Len(decls) |-> Field(t, decls[i], "id")], parent)

\* variant: the search for the enclosing scope starts at the declaration itself
FunctionDeclarationVisitor_FromSelf(t, h, node, parents) ==
    LET parent == NearestScope(t, parents, Len(parents))
        id == Field(t, node, "id")
        h1 == EnsureLocals(h, parent)
        h2 == IF id = 0 THEN h1 ELSE SetLocal(h1, parent, t[id].name)
    IN  IF parent = 0 THEN [h EXCEPT !.err = TypeErr]
        ELSE declareFunction(t, h2, node)

\* index.js 134-150
FunctionDeclarationVisitor(t, h, node, parents) ==
    LET parent == NearestScope(t, parents, Len(parents) - 1)
        id == Field(t, node, "id")
        h1 == EnsureLocals(h, parent)
        h2 == IF id = 0 THEN h1 ELSE SetLocal(h1, parent, t[id].name)
    IN  IF parent = 0 THEN [h EXCEPT !.err = TypeErr]
        ELSE declareFunction(t, h2, node)

\* index.js 170-178
TryStatementVisitor(t, h, node) ==
    LET handler == Field(t, node, "handler")
    IN  IF handler = 0 THEN h
        ELSE declarePattern(t, EnsureLocals(h, handler), Field(t, handler, "param"), handler)

(***************************************************************************)
(* The reference tests of the second walk.                                 *)
(***************************************************************************)
RECURSIVE IdentifierLoop(_, _, _, _, _)
\* index.js 191-199: TRUE when the loop returns early (the name is bound)
IdentifierLoop(t, h, name, parents, i) ==
    IF i > Len(parents) THEN FALSE
    ELSE IF name = "arguments" /\ declaresArguments(t, parents[i]) THEN TRUE
    ELSE IF parents[i] \in h.has /\ name \in h.tab[parents[i]] THEN TRUE
    ELSE IdentifierLoop(t, h, name, parents, i + 1)

\* index.js 184-203: TRUE when identifier() records the node
IdentifierIsGlobal(t, h, node, parents) ==
    IF t[node].name = "undefined" THEN FALSE
    ELSE ~IdentifierLoop(t, h, t[node].name, parents, 1)

RECURSIVE ThisLoop(_, _, _)
\* index.js 209-213
ThisLoop(t, parents, i) ==
    IF i > Len(parents) THEN FALSE
    ELSE IF declaresThis(t, parents[i]) THEN TRUE
    ELSE ThisLoop(t, parents, i + 1)

ThisIsGlobal(t, node, parents) == ~ThisLoop(t, parents, 1)

\* variant: the copy leaves out the node being visited
Slice_WithoutNode(parents) == SubSeq(parents, 1, Len(parents) - 1)

\* parents.slice(): a copy of the working list
Slice(parents) == parents

(***************************************************************************)
(* Grouping and ordering of the report (index.js 220-235).                 *)
(***************************************************************************)
\* UTF-16 code units of the names that occur in the checked programs
CodeUnits(nm) ==
    CASE nm = "a" -> <<97>>
      [] nm = "b" -> <<98>>
      [] nm = "c" -> <<99>>
      [] nm = "d" -> <<100>>
      [] nm = "f" -> <<102>>
      [] nm = "x" -> <<120>>
      [] nm = "arguments" -> <<97, 114, 103, 117, 109, 101, 110, 116, 115>>
      [] nm = "this" -> <<116, 104, 105, 115>>
      [] nm = "undefined" -> <<117, 110, 100, 101, 102, 105, 110, 101, 100>>

RECURSIVE UnitsLess(_, _)
\* the default comparison of Array.prototype.sort on strings
UnitsLess(u, v) ==
    IF v = <<>> THEN FALSE
    ELSE IF u = <<>> THEN TRUE
    ELSE IF Head(u) # Head(v) THEN Head(u) < Head(v)
    ELSE UnitsLess(Tail(u), Tail(v))

NameLess(x, y) == UnitsLess(CodeUnits(x), CodeUnits(y))

RECURSIVE InsertSorted(_, _)
InsertSorted(sorted, k) ==
    IF sorted = <<>> THEN <<k>>
    ELSE IF NameLess(k, Head(sorted)) THEN <<k>> \o sorted
    ELSE <<Head(sorted)>> \o InsertSorted(Tail(sorted), k)

RECURSIVE SortFrom(_, _)
SortFrom(keys, sorted) ==
    IF keys = <<>> THEN sorted
    ELSE SortFrom(Tail(keys), InsertSorted(sorted, Head(keys)))

\* variant: the keys left in insertion order
SortKeys_Unsorted(keys) == keys

\* Object.keys(groupedGlobals).sort()
SortKeys(keys) == SortFrom(keys, <<>>)

\* node.type === 'ThisExpression' ? 'this' : node.name
GroupName(t, n) == IF t[n].kind = "ThisExpression" THEN "this" ELSE t[n].name

RECURSIVE GroupFrom(_, _, _)
\* globals.forEach: grouped = [keys: insertion order, nodes: key -> list]
GroupFrom(t, gs, grouped) ==
    IF gs = <<>> THEN grouped
    ELSE LET nm == GroupName(t, Head(gs))
             old == IF nm \in DOMAIN grouped.nodes THEN grouped.nodes[nm] ELSE <<>>
         IN  GroupFrom(t, Tail(gs),
                 [keys |-> IF nm \in DOMAIN grouped.nodes THEN grouped.keys
                           ELSE Append(grouped.keys, nm),
                  nodes |-> [k \in DOMAIN grouped.nodes \cup {nm} |->
                                IF k = nm THEN Append(old, Head(gs))
                                ELSE grouped.nodes[k]]])

EmptyGroups == [keys |-> <<>>, nodes |-> [k \in {} |-> <<>>]]

GroupedGlobals(t, gs) ==
    LET grouped == GroupFrom(t, gs, EmptyGroups)
        names == SortKeys(grouped.keys)
    IN  [i \in 1..Len(names) |-> [name |-> names[i], nodes |-> grouped.nodes[names[i]]]]

(***************************************************************************)
(* acorn-walk's ancestor walk, as index.js relies on it: a node is pushed  *)
(* on the working list when the walk enters it, its children are walked,   *)
(* then its visitor is called (with the list, the node last), then it is   *)
(* popped.  Settle runs the walk up to the next call of a visitor.         *)
(***************************************************************************)
WalkChildren(t, n) == {c \in 1..Len(t) : t[c].parent = n /\ t[c].kind # "null"}

BuildKinds == {"VariableDeclaration", "FunctionDeclaration", "FunctionExpression",
               "ArrowFunctionExpression", "TryStatement"}
ClassifyKinds == {"Identifier", "ThisExpression"}

HasVisitor(t, n, pass) ==
    IF pass = "build" THEN t[n].kind \in BuildKinds ELSE t[n].kind \in ClassifyKinds

Push(list, n) == Append(list, n)
Pop(list) == SubSeq(list, 1, Len(list) - 1)
Top(list) == list[Len(list)]

RECURSIVE Settle(_, _, _, _)
Settle(t, list, last, pass) ==
    IF list = <<>> THEN list
    ELSE LET rest == {c \in WalkChildren(t, Top(list)) : c > last}
         IN  IF rest # {} THEN Settle(t, Push(list, Min(rest)), Min(rest), pass)
             ELSE IF HasVisitor(t, Top(list), pass) THEN list
             ELSE Settle(t, Pop(list), Top(list), pass)

StartWalk(t, pass) == Settle(t, Push(<<>>, 1), 1, pass)
Resume(t, list, pass) == Settle(t, Pop(list), Top(list), pass)

(***************************************************************************)
(* Inputs.  A caller passes an AST object, or a string together with the   *)
(* fallback flag.  For a string, strictErr is the message of acorn's       *)
(* syntax error ("" when the strict parse succeeds), and `tree` holds from *)
(* the start what the parser in use makes of it (acorn's tree, or          *)
(* acorn-loose's after a syntax error); for an AST object, `tree` is that  *)
(* object.  What follows the parse does not depend on where the tree came  *)
(* from, so strings are drawn over the flat programs of at most one        *)
(* reference.                                                              *)
(***************************************************************************)
SyntaxErrors == {"Unexpected token (1:4)"}

AstSource == [isString |-> FALSE, strictErr |-> "", fallback |-> FALSE]

StringSources == [isString : {TRUE}, strictErr : {""} \cup SyntaxErrors, fallback : BOOLEAN]

Heap == [has |-> hasLocals, tab |-> locals, err |-> ""]

Init ==
    /\ \/ source = AstSource /\ tree \in Programs \cup {ExprStmt(Id("a"))}
       \/ source \in StringSources /\ tree \in FlatUpTo(1)
    /\ pc = "start"
    /\ hasLocals = {}
    /\ locals = <<>>
    /\ ancestors = <<>>
    /\ globals = <<>>
    /\ parentsOf = <<>>
    /\ parsingError = ""
    /\ result = <<>>
    /\ firstResult = <<>>
    /\ error = ""
    /\ runs = 0

\* variant: the fallback result without the strict parser's message
reallyParse_NoMessage(src, parsed, fallbackToLoose) ==
    IF src.strictErr = "" \/ fallbackToLoose
    THEN [ast |-> parsed, parsingError |-> "", err |-> ""]
    ELSE [ast |-> <<>>, parsingError |-> "", err |-> src.strictErr]

\* index.js 23-49: [ast, parsingError] or the exception thrown (err)
reallyParse(src, parsed, fallbackToLoose) ==
    IF src.strictErr = "" THEN [ast |-> parsed, parsingError |-> "", err |-> ""]
    ELSE IF fallbackToLoose
         THEN [ast |-> parsed, parsingError |-> src.strictErr, err |-> ""]
         ELSE [ast |-> <<>>, parsingError |-> "", err |-> src.strictErr]

\* index.js 56-59
Parsed(src, t) ==
    IF src.isString THEN reallyParse(src, t, src.fallback)
    ELSE [ast |-> t, parsingError |-> "", err |-> ""]

\* index.js 62: ast && typeof ast === 'object' && ast.type === 'Program'
IsProgram(ast) == ast # <<>> /\ ast[1].kind = "Program"

\* the strict parser's exception leaves parseWithGlobals
ParseThrows ==
    /\ pc = "start"
    /\ Parsed(source, tree).err # ""
    /\ pc' = "threw"
    /\ error' = Parsed(source, tree).err
    /\ runs' = runs + 1
    /\ UNCHANGED <<source, tree, hasLocals, locals, ancestors, globals, parentsOf,
                   parsingError, result, firstResult>>

\* index.js 62-64
SourceRejected ==
    /\ pc = "start"
    /\ Parsed(source, tree).err = ""
    /\ ~IsProgram(Parsed(source, tree).ast)
    /\ pc' = "threw"
    /\ error' = SourceErr
    /\ runs' = runs + 1
    /\ UNCHANGED <<source, tree, hasLocals, locals, ancestors, globals, parentsOf,
                   parsingError, result, firstResult>>

\* index.js 51-64 and the start of the first walk (119)
Begin ==
    /\ pc = "start"
    /\ Parsed(source, tree).err = ""
    /\ IsProgram(Parsed(source, tree).ast)
    /\ tree' = Parsed(source, tree).ast
    /\ parsingError' = Parsed(source, tree).parsingError
    /\ hasLocals' = {}
    /\ locals' = [n \in 1..Len(tree') |-> {}]
    /\ parentsOf' = [n \in 1..Len(tree') |-> <<>>]
    /\ globals' = <<>>
    /\ ancestors' = StartWalk(tree', "build")
    /\ pc' = "build"
    /\ runs' = runs + 1
    /\ UNCHANGED <<source, result, firstResult, error>>

\* a second call, on the AST object the first call returned
Rerun ==
    /\ pc = "done"
    /\ runs = 1
    /\ parsingError' = ""
    /\ globals' = <<>>
    /\ ancestors' = StartWalk(tree, "build")
    /\ pc' = "build"
    /\ runs' = runs + 1
    /\ UNCHANGED <<source, tree, hasLocals, locals, parentsOf, result, firstResult, error>>

\* the outcome of a visitor of the first walk
Built(h) ==
    /\ hasLocals' = h.has
    /\ locals' = h.tab
    /\ error' = h.err
    /\ IF h.err # "" THEN pc' = "threw" /\ UNCHANGED ancestors
       ELSE pc' = pc /\ ancestors' = Resume(tree, ancestors, "build")
    /\ UNCHANGED <<source, tree, globals, parentsOf, parsingError, result, firstResult, runs>>

BuildVariableDeclaration ==
    /\ pc = "build" /\ ancestors # <<>>
    /\ tree[Top(ancestors)].kind = "VariableDeclaration"
    /\ Built(VariableDeclarationVisitor(tree, Heap, Top(ancestors), ancestors))

\* the 'Function' visitor, then the 'FunctionDeclaration' visitor
BuildFunctionDeclaration ==
    /\ pc = "build" /\ ancestors # <<>>
    /\ tree[Top(ancestors)].kind = "FunctionDeclaration"
    /\ LET h1 == declareFunction(tree, Heap, Top(ancestors))
       IN  Built(IF h1.err # "" THEN h1
                 ELSE FunctionDeclarationVisitor(tree, h1, Top(ancestors), ancestors))

BuildFunction ==
    /\ pc = "build" /\ ancestors # <<>>
    /\ tree[Top(ancestors)].kind \in {"FunctionExpression", "ArrowFunctionExpression"}
    /\ Built(declareFunction(tree, Heap, Top(ancestors)))

BuildTryStatement ==
    /\ pc = "build" /\ ancestors # <<>>
    /\ tree[Top(ancestors)].kind = "TryStatement"
    /\ Built(TryStatementVisitor(tree, Heap, Top(ancestors)))

\* the first walk returns; the second begins
BuildDone ==
    /\ pc = "build" /\ ancestors = <<>>
    /\ pc' = "classify"
    /\ ancestors' = StartWalk(tree, "classify")
    /\ UNCHANGED <<source, tree, hasLocals, locals, globals, parentsOf, parsingError,
                   result, firstResult, error, runs>>

\* the outcome of a visitor of the second walk
Classified(node, isGlobal) ==
    /\ IF isGlobal
       THEN /\ parentsOf' = [parentsOf EXCEPT ![node] = Slice(ancestors)]
            /\ globals' = Append(globals, node)
       ELSE UNCHANGED <<parentsOf, globals>>
    /\ ancestors' = Resume(tree, ancestors, "classify")
    /\ UNCHANGED <<pc, source, tree, hasLocals, locals, parsingError, result,
                   firstResult, error, runs>>

ClassifyIdentifier ==
    /\ pc = "classify" /\ ancestors # <<>>
    /\ tree[Top(ancestors)].kind = "Identifier"
    /\ Classified(Top(ancestors), IdentifierIsGlobal(tree, Heap, Top(ancestors), ancestors))

ClassifyThisExpression ==
    /\ pc = "classify" /\ ancestors # <<>>
    /\ tree[Top(ancestors)].kind = "ThisExpression"
    /\ Classified(Top(ancestors), ThisIsGlobal(tree, Top(ancestors), ancestors))

\* index.js 220-235
Return ==
    /\ pc = "classify" /\ ancestors = <<>>
    /\ result' = [globals |-> GroupedGlobals(tree, globals), parsingError |-> parsingError]
    /\ firstResult' = IF runs = 1 THEN result' ELSE firstResult
    /\ pc' = "done"
    /\ UNCHANGED <<source, tree, hasLocals, locals, ancestors, globals, parentsOf,
                   parsingError, error, runs>>

Next ==
    \/ ParseThrows
    \/ SourceRejected
    \/ Begin
    \/ BuildVariableDeclaration
    \/ BuildFunctionDeclaration
    \/ BuildFunction
    \/ BuildTryStatement
    \/ BuildDone
    \/ ClassifyIdentifier
    \/ ClassifyThisExpression
    \/ Return

Spec == Init /\ [][Next]_vars

(***************************************************************************)
(* Two calls on one AST object: the second is given the object the first   *)
(* returned, with the tables and `parents` arrays the first attached.      *)
(***************************************************************************)
InitRerun ==
    /\ source = AstSource
    /\ tree \in RerunPrograms
    /\ pc = "start"
    /\ hasLocals = {}
    /\ locals = <<>>
    /\ ancestors = <<>>
    /\ globals = <<>>
    /\ parentsOf = <<>>
    /\ parsingError = ""
    /\ result = <<>>
    /\ firstResult = <<>>
    /\ error = ""
    /\ runs = 0

NextRerun ==
    \/ Begin
    \/ Rerun
    \/ BuildVariableDeclaration
    \/ BuildFunctionDeclaration
    \/ BuildFunction
    \/ BuildTryStatement
    \/ BuildDone
    \/ ClassifyIdentifier
    \/ ClassifyThisExpression
    \/ Return

SpecRerun == InitRerun /\ [][NextRerun]_vars

(***************************************************************************)
(* declarePattern on its own: a catch clause (node 1, which carries a      *)
(* table) whose parameter (node 2) is any of the bounded patterns.         *)
(***************************************************************************)
PatternClause(p) == T(Mk("CatchClause", "", ""), <<As(p, "param")>>)

InitPattern ==
    /\ \E p \in Patterns, pre \in {{}, {"x"}} :
          /\ tree = PatternClause(p)
          /\ locals = [n \in 1..Len(tree) |-> IF n = 1 THEN pre ELSE {}]
          /\ source = AstSource
    /\ pc = "pattern"
    /\ hasLocals = {1}
    /\ ancestors = <<>>
    /\ globals = <<>>
    /\ parentsOf = [n \in 1..Len(tree) |-> <<>>]
    /\ parsingError = ""
    /\ result = <<>>
    /\ firstResult = <<>>
    /\ error = ""
    /\ runs = 0

ApplyDeclarePattern ==
    /\ pc = "pattern"
    /\ LET h == declarePattern(tree, Heap, Field(tree, 1, "param"), 1)
       IN  /\ hasLocals' = h.has
           /\ locals' = h.tab
           /\ error' = h.err
           /\ pc' = IF h.err # "" THEN "threw" ELSE "declared"
    /\ UNCHANGED <<source, tree, ancestors, globals, parentsOf, parsingError, result,
                   firstResult, runs>>

NextPattern == ApplyDeclarePattern

SpecPattern == InitPattern /\ [][NextPattern]_vars

(***************************************************************************)
(* Tree relations used by the properties, read off the parent pointers     *)
(* (not off the walk's working list).                                      *)
(***************************************************************************)
RECURSIVE Chain(_, _)
\* n and its ancestors
Chain(t, n) == IF n = 0 THEN {} ELSE {n} \cup Chain(t, t[n].parent)

RECURSIVE PathTo(_, _)
\* the path from the root down to n, n included
PathTo(t, n) == IF n = 0 THEN <<>> ELSE Append(PathTo(t, t[n].parent), n)

RECURSIVE ClimbTo(_, _, _)
\* the nearest of n and its ancestors whose type is one of kinds (0: none)
ClimbTo(t, n, kinds) ==
    IF n = 0 THEN 0
    ELSE IF t[n].kind \in kinds THEN n
    ELSE ClimbTo(t, t[n].parent, kinds)

FunctionLike == {"Program", "FunctionDeclaration", "FunctionExpression",
                 "ArrowFunctionExpression"}
BlockLike == FunctionLike \cup {"BlockStatement"}
PlainFunction == {"FunctionDeclaration", "FunctionExpression"}

NodesOf(t, k) == {n \in 1..Len(t) : t[n].kind = k}
Recorded == {globals[i] : i \in 1..Len(globals)}
TableHas(n, nm) == n \in hasLocals /\ nm \in locals[n]
BuildOver == pc \in {"classify", "done"}

\* n holds a binding target of its parent: a property's value, a rest
\* element's argument, a present array element, a default pattern's left side
TargetEdge(t, n) ==
    LET p == t[n].parent
    IN  \/ t[p].kind = "ObjectPattern" /\ t[n].role = "properties"
        \/ t[p].kind = "Property" /\ t[n].role = "value"
        \/ t[p].kind = "RestElement" /\ t[n].role = "argument"
        \/ t[p].kind = "ArrayPattern" /\ t[n].role = "elements" /\ t[n].kind # "null"
        \/ t[p].kind = "AssignmentPattern" /\ t[n].role = "left"

\* the nodes at the binding targets of the pattern rooted at root
Targets(t, root) ==
    {n \in 1..Len(t) :
        /\ root \in Chain(t, n)
        /\ t[n].kind # "Property"
        /\ ~(t[n].kind = "RestElement" /\ t[n].role = "properties")
        /\ \A m \in Chain(t, n) \ Chain(t, root) : TargetEdge(t, m)}

TargetNames(t, root) == {t[n].name : n \in {m \in Targets(t, root) : t[m].kind = "Identifier"}}

PatternKinds == {"Identifier", "ObjectPattern", "ArrayPattern", "RestElement",
                 "AssignmentPattern"}

\* the names a variable declaration declares
DeclaredBy(t, v) ==
    UNION {TargetNames(t, Field(t, d, "id")) : d \in {c \in 1..Len(t) :
                                  t[c].parent = v /\ t[c].role = "declarations"}}

(***************************************************************************)
(* C1.  Once the classification pass has visited every identifier node,    *)
(* a node named N is recorded as a global exactly when N is not            *)
(* 'undefined', no node on its ancestor chain has a table holding N, and   *)
(* N is not 'arguments' under a function declaration or expression; a      *)
(* search from the innermost ancestor outward decides the same as the      *)
(* code's loop from the root inward.                                       *)
(***************************************************************************)
RECURSIVE BoundOutward(_, _, _)
BoundOutward(t, m, nm) ==
    IF m = 0 THEN FALSE
    ELSE IF nm = "arguments" /\ t[m].kind \in PlainFunction THEN TRUE
    ELSE IF TableHas(m, nm) THEN TRUE
    ELSE BoundOutward(t, t[m].parent, nm)

C1_IdentifierClassification ==
    pc = "done" =>
        \A n \in NodesOf(tree, "Identifier") :
            LET nm == tree[n].name
            IN  /\ n \in Recorded <=>
                     /\ nm # "undefined"
                     /\ ~\E m \in Chain(tree, n) : TableHas(m, nm)
                     /\ ~(nm = "arguments"
                          /\ \E m \in Chain(tree, n) : tree[m].kind \in PlainFunction)
                /\ n \in Recorded <=>
                     (nm # "undefined" /\ ~BoundOutward(tree, tree[n].parent, nm))

IsReference(t, n) == t[n].role = "expression"

C1_Witness ==
    /\ pc = "done"
    /\ \E n \in NodesOf(tree, "Identifier") :
          IsReference(tree, n) /\ tree[n].name = "a" /\ n \notin Recorded
    /\ \E n \in NodesOf(tree, "Identifier") : tree[n].name = "arguments" /\ n \in Recorded
    /\ \E n \in NodesOf(tree, "Identifier") : tree[n].name = "undefined"

(***************************************************************************)
(* C2.  The returned list partitions the recorded references: each sits in *)
(* exactly one group, the one of its name ('this' for a this-expression);  *)
(* no group is empty; the group names strictly ascend in code-unit order;  *)
(* a group lists its nodes in the order in which they were recorded.       *)
(***************************************************************************)
\* the order of the names of the checked programs, written out
Rank(nm) ==
    CASE nm = "a" -> 1 [] nm = "arguments" -> 2 [] nm = "b" -> 3 [] nm = "c" -> 4
      [] nm = "d" -> 5 [] nm = "f" -> 6 [] nm = "this" -> 7 [] nm = "undefined" -> 8
      [] nm = "x" -> 9

C2_GroupsPartitionSorted ==
    pc = "done" =>
        LET G == result.globals
            places(n) == {<<i, j>> \in (1..Len(G)) \X (1..Len(globals)) :
                            j <= Len(G[i].nodes) /\ G[i].nodes[j] = n}
        IN  /\ Cardinality(Recorded) = Len(globals)
            /\ \A n \in Recorded :
                  /\ Cardinality(places(n)) = 1
                  /\ \A pl \in places(n) : G[pl[1]].name = GroupName(tree, n)
            /\ \A i \in 1..Len(G) :
                  /\ G[i].nodes # <<>>
                  /\ G[i].nodes =
                       SelectSeq(globals, LAMBDA n : GroupName(tree, n) = G[i].name)
            /\ \A i, j \in 1..Len(G) : i < j => Rank(G[i].name) < Rank(G[j].name)

C2_Witness ==
    /\ pc = "done"
    /\ Len(result.globals) >= 2
    /\ \E i \in 1..Len(result.globals) : Len(result.globals[i].nodes) >= 2
    /\ GroupName(tree, globals[1]) # result.globals[1].name

(***************************************************************************)
(* C3.  After the build pass a `var` name is in the table of the nearest   *)
(* enclosing function-like node and a `let`/`const` name in the table of   *)
(* the nearest enclosing block scope; so a reference to the `var` name     *)
(* anywhere inside that function is bound, and a reference to the          *)
(* `let`/`const` name outside its block is a global when no table on its   *)
(* ancestor chain holds the name.                                          *)
(***************************************************************************)
OwnerOf(t, v) ==
    IF t[v].vkind = "var" THEN ClimbTo(t, v, FunctionLike) ELSE ClimbTo(t, v, BlockLike)

C3_VarAndLetScopes ==
    BuildOver =>
        \A v \in NodesOf(tree, "VariableDeclaration") :
            LET owner == OwnerOf(tree, v)
            IN  /\ owner # 0
                /\ \A nm \in DeclaredBy(tree, v) : TableHas(owner, nm)
                /\ pc = "done" =>
                     \A r \in NodesOf(tree, "Identifier") :
                        tree[r].name \in DeclaredBy(tree, v) \ {"undefined"} =>
                            /\ owner \in Chain(tree, r) => r \notin Recorded
                            /\ (/\ tree[v].vkind # "var"
                                /\ owner \notin Chain(tree, r)
                                /\ tree[r].name # "arguments"
                                /\ ~\E m \in Chain(tree, r) : TableHas(m, tree[r].name))
                               => r \in Recorded

\* function () { { var a } a }: the reference is bound through the function
C3_Witness ==
    /\ pc = "done"
    /\ \E v \in NodesOf(tree, "VariableDeclaration"), r \in NodesOf(tree, "Identifier") :
          /\ tree[v].vkind = "var"
          /\ tree[tree[v].parent].kind = "BlockStatement"
          /\ tree[tree[tree[v].parent].parent].kind = "BlockStatement"
          /\ tree[OwnerOf(tree, v)].kind = "ArrowFunctionExpression"
          /\ IsReference(tree, r) /\ tree[r].name = "a"
          /\ tree[v].parent \notin Chain(tree, r)
          /\ OwnerOf(tree, v) \in Chain(tree, r)
          /\ r \notin Recorded

(***************************************************************************)
(* C4.  A this-expression is recorded as a global, and reported in the     *)
(* group 'this' and in no other, exactly when no node on its ancestor      *)
(* chain is a function declaration or a function expression, whatever the  *)
(* tables hold.                                                            *)
(***************************************************************************)
C4_ThisClassification ==
    pc = "done" =>
        \A n \in NodesOf(tree, "ThisExpression") :
            LET free == ~\E m \in Chain(tree, n) : tree[m].kind \in PlainFunction
                G == result.globals
            IN  /\ n \in Recorded <=> free
                /\ free <=> \E i \in 1..Len(G) :
                                /\ G[i].name = "this"
                                /\ \E j \in 1..Len(G[i].nodes) : G[i].nodes[j] = n
                /\ \A i \in 1..Len(G) :
                      (\E j \in 1..Len(G[i].nodes) : G[i].nodes[j] = n) => G[i].name = "this"

\* () => { this } under a catch clause: arrow functions bind nothing
C4_Witness ==
    /\ pc = "done"
    /\ \E n \in NodesOf(tree, "ThisExpression") :
          /\ n \in Recorded
          /\ \E m \in Chain(tree, n) : tree[m].kind = "ArrowFunctionExpression"
          /\ \E m \in Chain(tree, n) : tree[m].kind = "CatchClause"

(***************************************************************************)
(* C5.  declarePattern adds to the target's table exactly the identifier   *)
(* names at the pattern's binding targets: it returns normally exactly     *)
(* when every node at a binding target is a pattern node, and the table is *)
(* then the old table plus those names; otherwise it raises the fatal      *)
(* error, having added only names at binding targets.  No other table      *)
(* changes.                                                                *)
(***************************************************************************)
C5_DeclarePatternExact ==
    [][pc = "pattern" =>
          LET root == Field(tree, 1, "param")
              names == TargetNames(tree, root)
              regular == \A n \in Targets(tree, root) : tree[n].kind \in PatternKinds
          IN  /\ regular <=> pc' = "declared"
              /\ ~regular <=> (pc' = "threw" /\ error' = PatternErr)
              /\ regular => locals'[1] = locals[1] \cup names
              /\ locals[1] \subseteq locals'[1]
              /\ locals'[1] \subseteq locals[1] \cup names
              /\ \A n \in 2..Len(tree) : locals'[n] = locals[n]
              /\ hasLocals' = hasLocals]_vars

\* {a, b: [c, ...d]} declares a, c and d, and not the key b
C5_Witness ==
    /\ pc = "declared"
    /\ tree = PatternClause(ExamplePattern)
    /\ locals[1] \ {"x"} = {"a", "c", "d"}

(***************************************************************************)
(* C6.  A catch clause with a parameter gets the parameter's names in its  *)
(* own table; a catch clause without a parameter declares nothing, and    *)
(* the analysis of a program with one does not fail (only the strict       *)
(* parser may refuse its text).                                            *)
(***************************************************************************)
C6_CatchClauseCompletes ==
    \A n \in NodesOf(tree, "TryStatement") :
        LET handler == Field(tree, n, "handler")
        IN  handler # 0 =>
              IF Field(tree, handler, "param") # 0
              THEN BuildOver =>
                     \A nm \in TargetNames(tree, Field(tree, handler, "param")) :
                        TableHas(handler, nm)
              ELSE /\ pc = "threw" => error \in SyntaxErrors
                   /\ handler \in hasLocals => locals[handler] = {}

(***************************************************************************)
(* C7.  A string whose strict parse fails: without the fallback the strict *)
(* parser's error leaves the call unchanged and nothing is returned; with  *)
(* it the call goes on and its result carries that error's message.  The   *)
(* result's parsingError is set in no other case.                          *)
(***************************************************************************)
FallbackTaken == source.isString /\ source.strictErr # "" /\ source.fallback
SyntaxRefused == source.isString /\ source.strictErr # "" /\ ~source.fallback

C7_FallbackAndParsingError ==
    /\ (SyntaxRefused /\ pc # "start") =>
          pc = "threw" /\ error = source.strictErr /\ result = <<>>
    /\ (pc = "threw" /\ error \in SyntaxErrors) => SyntaxRefused
    /\ (FallbackTaken /\ pc # "start") =>
          /\ parsingError = source.strictErr
          /\ pc = "threw" => error = TypeErr
    /\ pc = "done" =>
          result.parsingError = IF FallbackTaken THEN source.strictErr ELSE ""

C7_Witness ==
    /\ pc = "done"
    /\ FallbackTaken
    /\ result.parsingError \in SyntaxErrors
    /\ result.globals # <<>>

C9_FunctionDeclarationScopes ==
    /\ (pc = "threw" /\ error = TypeErr) => tree[Top(ancestors)].kind = "TryStatement"
    /\ BuildOver =>
        \A fn \in NodesOf(tree, "FunctionDeclaration") :
            LET owner == ClimbTo(tree, tree[fn].parent, FunctionLike)
                id == Field(tree, fn, "id")
                params == UNION {TargetNames(tree, q) : q \in {c \in 1..Len(tree) :
                                     tree[c].parent = fn /\ tree[c].role = "params"}}
            IN  /\ owner # 0 /\ owner # fn
                /\ id # 0 => /\ TableHas(owner, tree[id].name)
                             /\ \A b \in Chain(tree, tree[fn].parent) \ Chain(tree, owner) :
                                   ~TableHas(b, tree[id].name)
                /\ \A nm \in params : TableHas(fn, nm)
                /\ pc = "done" =>
                     \A r \in NodesOf(tree, "Identifier") :
                        tree[r].name \in params =>
                            /\ fn \in Chain(tree, r) => r \notin Recorded
                            /\ (/\ fn \notin Chain(tree, r)
                                /\ ~\E m \in Chain(tree, r) : TableHas(m, tree[r].name))
                               => r \in Recorded

\* { function f(a) {} } f: f is bound through the program
C9_Witness ==
    /\ pc = "done"
    /\ \E fn \in NodesOf(tree, "FunctionDeclaration"), r \in NodesOf(tree, "Identifier") :
          /\ tree[tree[fn].parent].kind = "BlockStatement"
          /\ tree[tree[tree[fn].parent].parent].kind = "Program"
          /\ IsReference(tree, r) /\ tree[r].name = "f"
          /\ tree[fn].parent \notin Chain(tree, r)
          /\ r \notin Recorded

====
